---- MODULE Spec2Model ----
(***************************************************************************)
(* uniwidth: display width (0, 1 or 2 terminal cells) of runes and         *)
(* strings.  The model follows uniwidth.go (RuneWidth, StringWidth),       *)
(* options.go (the ...WithOptions entry points) and the table generator    *)
(* cmd/generate-tables/main.go, whose output the fallback tier searches.   *)
(* Runes are Go int32 values, strings are Go byte sequences.               *)
(***************************************************************************)
EXTENDS Integers, Sequences, FiniteSets

(***************************************************************************)
(* Bounds of the model.                                                    *)
(***************************************************************************)
\* longest input string, counted in units (a code point, a raw byte or a
\* fixed emoji sequence)
MaxLen == 3
\* longest list of functional options passed to a ...WithOptions call
MaxOpts == 2
\* longest table handed to a direct call of binarySearch
MaxTable == 3
\* largest code point of such a table
MaxPoint == 2
\* number of goroutines that call the package concurrently
NThreads == 2

(***************************************************************************)
(* runeRange and the generator's pipeline.                                 *)
(***************************************************************************)
RR(f, l) == [first |-> f, last |-> l]

\* Union of the code points of a list of ranges.
Covers(table, r) == \E k \in 1..Len(table) : table[k].first <= r /\ r <= table[k].last

generateZeroWidthRanges ==
  << RR(\h0000, \h001F), RR(\h007F, \h007F), RR(\h0080, \h009F), RR(\h00AD, \h00AD),
     RR(\h0300, \h036F),
     RR(\h0591, \h05BD), RR(\h05BF, \h05BF), RR(\h05C1, \h05C2), RR(\h05C4, \h05C5),
     RR(\h05C7, \h05C7),
     RR(\h0610, \h061A), RR(\h064B, \h065F), RR(\h0670, \h0670), RR(\h06D6, \h06DC),
     RR(\h06DF, \h06E4), RR(\h06E7, \h06E8), RR(\h06EA, \h06ED),
     RR(\h0901, \h0902), RR(\h093A, \h093A), RR(\h093C, \h093C), RR(\h0941, \h0948),
     RR(\h094D, \h094D), RR(\h0951, \h0957), RR(\h0962, \h0963),
     RR(\h200B, \h200F), RR(\h20D0, \h20FF), RR(\hFE00, \hFE0F), RR(\hFE20, \hFE2F),
     RR(\hFEFF, \hFEFF), RR(\hE0100, \hE01EF) >>

rangesOverlap(a, b) == a.first <= b.last /\ b.first <= a.last

\* Keeps the ranges that overlap no hot path; a range that overlaps one is
\* dropped whole.
removeOverlappingRanges(ranges, hotPaths) ==
  SelectSeq(ranges, LAMBDA rr : ~ \E k \in 1..Len(hotPaths) : rangesOverlap(rr, hotPaths[k]))

wideHotPaths ==
  << RR(\h0000, \h007F), RR(\h4E00, \h9FFF), RR(\hAC00, \hD7AF), RR(\h3040, \h30FF),
     RR(\hF900, \hFAFF), RR(\h1F600, \h1F64F), RR(\h1F300, \h1F5FF), RR(\h1F680, \h1F6FF),
     RR(\h1F900, \h1F9FF), RR(\h2600, \h26FF), RR(\h2700, \h27BF) >>

filterHotPaths(ranges) == removeOverlappingRanges(ranges, wideHotPaths)

zeroWidthHotPaths ==
  << RR(\h0000, \h001F), RR(\h007F, \h007F), RR(\h200D, \h200D), RR(\h200C, \h200C),
     RR(\hFE00, \hFE0F), RR(\hE0100, \hE01EF) >>

filterZeroWidthHotPaths(ranges) == removeOverlappingRanges(ranges, zeroWidthHotPaths)

ambiguousHotPaths == << RR(\h0000, \h007F) >>

filterAmbiguousHotPaths(ranges) == removeOverlappingRanges(ranges, ambiguousHotPaths)

mergeRanges(a, b) == a \o b

\* sort.Slice by first: insertion of one range into a list sorted by first.
RECURSIVE insertByFirst(_, _)
insertByFirst(rr, sorted) ==
  IF sorted = << >> THEN << rr >>
  ELSE IF rr.first < Head(sorted).first THEN << rr >> \o sorted
  ELSE << Head(sorted) >> \o insertByFirst(rr, Tail(sorted))

RECURSIVE sortByFirst(_)
sortByFirst(ranges) ==
  IF ranges = << >> THEN << >>
  ELSE insertByFirst(Head(ranges), sortByFirst(Tail(ranges)))

\* The merge loop of optimizeRanges over the sorted list, from index i on.
RECURSIVE mergeFrom(_, _, _)
mergeFrom(sorted, i, result) ==
  IF i > Len(sorted) THEN result
  ELSE LET n       == Len(result)
           last    == result[n]
           current == sorted[i]
       IN IF current.first <= last.last + 1
          THEN mergeFrom(sorted, i + 1,
                 IF current.last > last.last
                 THEN [result EXCEPT ![n].last = current.last]
                 ELSE result)
          ELSE mergeFrom(sorted, i + 1, Append(result, current))

\* optimizeRanges without the sort.
optimizeRanges_Unsorted(ranges) ==
  IF Len(ranges) = 0 THEN ranges
  ELSE mergeFrom(ranges, 2, << ranges[1] >>)

optimizeRanges(ranges) ==
  IF Len(ranges) = 0 THEN ranges
  ELSE LET sorted == sortByFirst(ranges)
       IN mergeFrom(sorted, 2, << sorted[1] >>)

(***************************************************************************)
(* The generator's input.  EastAsianWidth.txt and emoji-data.txt are       *)
(* downloaded when the generator runs; the lists below are the lines of    *)
(* the Unicode 16.0 files that the runes of the model touch.               *)
(***************************************************************************)
\* EastAsianWidth.txt, the lines with property W or F.
eawWide ==
  << RR(\h1100, \h115F), RR(\h231A, \h231B), RR(\h23F0, \h23F0), RR(\h2614, \h2615),
     RR(\h2E80, \h2E99), RR(\h2E9B, \h2EF3), RR(\h2F00, \h2FD5),
     RR(\h3000, \h3000), RR(\h3001, \h303E), RR(\h3041, \h3096), RR(\h3099, \h30FF),
     RR(\h3105, \h312F), RR(\h3131, \h318E), RR(\h3190, \h31E5), RR(\h31EF, \h321E),
     RR(\h3220, \h3247), RR(\h3250, \h4DBF), RR(\h4DC0, \h4DFF), RR(\h4E00, \h9FFF),
     RR(\hA000, \hA48C), RR(\hA490, \hA4C6), RR(\hA960, \hA97C), RR(\hAC00, \hD7A3),
     RR(\hF900, \hFAFF), RR(\hFE10, \hFE19), RR(\hFE30, \hFE52), RR(\hFE54, \hFE66),
     RR(\hFE68, \hFE6B), RR(\hFF01, \hFF60), RR(\hFFE0, \hFFE6),
     RR(\h1B000, \h1B122), RR(\h1F004, \h1F004), RR(\h1F0CF, \h1F0CF),
     RR(\h1F18E, \h1F18E), RR(\h1F191, \h1F19A), RR(\h1F200, \h1F202),
     RR(\h1F300, \h1F320), RR(\h1F5FB, \h1F64F), RR(\h1F680, \h1F6C5),
     RR(\h1F947, \h1F9FF), RR(\h1FA70, \h1FA7C),
     RR(\h20000, \h2FFFD), RR(\h30000, \h3FFFD) >>

\* EastAsianWidth.txt, the lines with property A.
eawAmbiguous ==
  << RR(\h00A1, \h00A1), RR(\h00A4, \h00A4), RR(\h00A7, \h00A8), RR(\h00AA, \h00AA),
     RR(\h00AD, \h00AE), RR(\h00B0, \h00B4), RR(\h00B6, \h00BA), RR(\h00BC, \h00BF),
     RR(\h00C6, \h00C6), RR(\h00D0, \h00D0), RR(\h00D7, \h00D8), RR(\h00DE, \h00E1),
     RR(\h00F7, \h00FA), RR(\h0300, \h036F), RR(\h0391, \h03A1), RR(\h2010, \h2010),
     RR(\h2013, \h2016), RR(\h2460, \h24E9), RR(\h2500, \h254B), RR(\h2550, \h2573),
     RR(\h2580, \h258F), RR(\h25A0, \h25A1), RR(\h2605, \h2606), RR(\h2776, \h277F),
     RR(\hE000, \hF8FF), RR(\hFE00, \hFE0F), RR(\hFFFD, \hFFFD),
     RR(\h1F100, \h1F10A), RR(\hE0100, \hE01EF), RR(\hF0000, \hFFFFD),
     RR(\h100000, \h10FFFD) >>

\* emoji-data.txt, the lines with property Emoji.
emojiRanges ==
  << RR(\h0023, \h0023), RR(\h002A, \h002A), RR(\h0030, \h0039), RR(\h00A9, \h00A9),
     RR(\h00AE, \h00AE), RR(\h203C, \h203C), RR(\h2049, \h2049), RR(\h2122, \h2122),
     RR(\h2139, \h2139), RR(\h2194, \h2199), RR(\h231A, \h231B), RR(\h23F0, \h23F0),
     RR(\h2600, \h2604), RR(\h2764, \h2764), RR(\h1F1E6, \h1F1FF),
     RR(\h1F468, \h1F469), RR(\h1F600, \h1F600), RR(\h1F6E1, \h1F6E1) >>

\* main(): merge emoji into wide, filter the hot paths, optimize.  These are
\* the three tables generateGoFile writes to tables_generated.go.
generatedWide == optimizeRanges(filterHotPaths(mergeRanges(eawWide, emojiRanges)))

generatedZeroWidth == optimizeRanges(filterZeroWidthHotPaths(generateZeroWidthRanges))

generatedAmbiguous == optimizeRanges(filterAmbiguousHotPaths(eawAmbiguous))

(***************************************************************************)
(* tables.go: the hand-written tables of the package.  No function of the  *)
(* package searches them; the classifier uses the generated tables.        *)
(***************************************************************************)
wideTableInit ==
  << RR(\h3000, \h303F), RR(\h2E80, \h2E99), RR(\h2E9B, \h2EF3), RR(\h2F00, \h2FD5),
     RR(\h31C0, \h31E3), RR(\h3200, \h321E), RR(\h3220, \h3247), RR(\h3250, \h4DBE),
     RR(\hFE30, \hFE4F), RR(\hFF01, \hFF60), RR(\hFFE0, \hFFE6), RR(\h1B000, \h1B0FF),
     RR(\h20000, \h2A6DF), RR(\h2A700, \h2B73F), RR(\h2B740, \h2B81F), RR(\h2B820, \h2CEAF),
     RR(\h2CEB0, \h2EBEF), RR(\h30000, \h3134F), RR(\h2600, \h26FF), RR(\h2700, \h27BF),
     RR(\h1F000, \h1F02F), RR(\h1F0A0, \h1F0FF), RR(\h1FA00, \h1FA6F), RR(\h1FA70, \h1FAFF),
     RR(\h10000, \h1007F) >>

zeroWidthTableInit ==
  << RR(\h0080, \h009F), RR(\h0300, \h036F), RR(\h1AB0, \h1AFF), RR(\h0591, \h05BD),
     RR(\h05BF, \h05BF), RR(\h05C1, \h05C2), RR(\h05C4, \h05C5), RR(\h05C7, \h05C7),
     RR(\h0610, \h061A), RR(\h064B, \h065F), RR(\h0670, \h0670), RR(\h06D6, \h06DC),
     RR(\h06DF, \h06E4), RR(\h06E7, \h06E8), RR(\h06EA, \h06ED), RR(\h0901, \h0902),
     RR(\h093A, \h093A), RR(\h093C, \h093C), RR(\h0941, \h0948), RR(\h094D, \h094D),
     RR(\h0951, \h0957), RR(\h0962, \h0963), RR(\h00AD, \h00AD), RR(\h200B, \h200F),
     RR(\h20D0, \h20FF), RR(\hFE20, \hFE2F), RR(\hFE30, \hFE2F), RR(\hFEFF, \hFEFF) >>

ambiguousTableInit ==
  << RR(\h00A1, \h00A1), RR(\h00A4, \h00A4), RR(\h00A7, \h00A8), RR(\h00AA, \h00AA),
     RR(\h00AD, \h00AE), RR(\h00B0, \h00B4), RR(\h00B6, \h00BA), RR(\h00BC, \h00BF),
     RR(\h00C6, \h00C6), RR(\h00D0, \h00D0), RR(\h00D7, \h00D8), RR(\h00DE, \h00E1),
     RR(\h00E6, \h00E6), RR(\h00E8, \h00EA), RR(\h00EC, \h00ED), RR(\h00F0, \h00F0),
     RR(\h00F2, \h00F3), RR(\h00F7, \h00FA), RR(\h00FC, \h00FC), RR(\h00FE, \h00FE),
     RR(\h0101, \h0101), RR(\h0111, \h0111), RR(\h0113, \h0113), RR(\h011B, \h011B),
     RR(\h0126, \h0127), RR(\h012B, \h012B), RR(\h0131, \h0133), RR(\h0138, \h0138),
     RR(\h013F, \h0142), RR(\h0144, \h0144), RR(\h0148, \h014B), RR(\h014D, \h014D),
     RR(\h0152, \h0153), RR(\h0166, \h0167), RR(\h016B, \h016B), RR(\h01CE, \h01CE),
     RR(\h01D0, \h01D0), RR(\h01D2, \h01D2), RR(\h01D4, \h01D4), RR(\h01D6, \h01D6),
     RR(\h01D8, \h01D8), RR(\h01DA, \h01DA), RR(\h01DC, \h01DC), RR(\h2500, \h257F),
     RR(\h2580, \h259F), RR(\h25A0, \h25FF) >>

\* The package-level variables of tables.go.
VARIABLES wideTable, zeroWidthTable, ambiguousTable

\* The package-level tables of tables_generated.go, set when the program
\* starts and shared by every call.
VARIABLES wideTableGenerated, zeroWidthTableGenerated, ambiguousTableGenerated

tables ==
  << wideTableGenerated, zeroWidthTableGenerated, ambiguousTableGenerated,
     wideTable, zeroWidthTable, ambiguousTable >>

(***************************************************************************)
(* unicode.In(r, unicode.Mn, unicode.Me, unicode.Mc): the ranges of the    *)
(* three general categories of Go's unicode package that the runes of the  *)
(* model touch.                                                            *)
(***************************************************************************)
combiningMarks ==
  << RR(\h0300, \h036F), RR(\h0483, \h0489), RR(\h0591, \h05BD), RR(\h05BF, \h05BF),
     RR(\h05C1, \h05C2), RR(\h05C4, \h05C5), RR(\h05C7, \h05C7), RR(\h0610, \h061A),
     RR(\h064B, \h065F), RR(\h0670, \h0670), RR(\h06D6, \h06DC), RR(\h06DF, \h06E4),
     RR(\h06E7, \h06E8), RR(\h06EA, \h06ED), RR(\h0900, \h0903), RR(\h093A, \h093C),
     RR(\h093E, \h094F), RR(\h0951, \h0957), RR(\h0962, \h0963), RR(\h1AB0, \h1ACE),
     RR(\h1DC0, \h1DFF), RR(\h20D0, \h20F0), RR(\h302A, \h302F), RR(\h3099, \h309A),
     RR(\hFE00, \hFE0F), RR(\hFE20, \hFE2F), RR(\hE0100, \hE01EF) >>

unicodeIn(r) == Covers(combiningMarks, r)

(***************************************************************************)
(* uniwidth.go: the classifier.                                            *)
(***************************************************************************)
\* The loop of binarySearch with the current low and high.
RECURSIVE bsearch(_, _, _, _)
bsearch(r, table, low, high) ==
  IF low > high THEN FALSE
  ELSE LET mid == (low + high) \div 2
           rr  == table[mid + 1]
       IN IF r < rr.first THEN bsearch(r, table, low, mid - 1)
          ELSE IF r > rr.last THEN bsearch(r, table, mid + 1, high)
          ELSE TRUE

binarySearch(r, table) == bsearch(r, table, 0, Len(table) - 1)

\* One iteration of binarySearch's loop with the first comparison made
\* with <= instead of <.
searchStep_FirstExcluded(r, table, low, high) ==
  LET mid == (low + high) \div 2
      rr  == table[mid + 1]
  IN IF r <= rr.first THEN [low |-> low, high |-> mid - 1, hit |-> FALSE]
     ELSE IF r > rr.last THEN [low |-> mid + 1, high |-> high, hit |-> FALSE]
     ELSE [low |-> low, high |-> high, hit |-> TRUE]

\* The loop iteration with high set to mid instead of mid - 1.
searchStep_HighKeepsMid(r, table, low, high) ==
  LET mid == (low + high) \div 2
      rr  == table[mid + 1]
  IN IF r < rr.first THEN [low |-> low, high |-> mid, hit |-> FALSE]
     ELSE IF r > rr.last THEN [low |-> mid + 1, high |-> high, hit |-> FALSE]
     ELSE [low |-> low, high |-> high, hit |-> TRUE]

\* One iteration of binarySearch's loop: the new low and high, or a hit.
searchStep(r, table, low, high) ==
  LET mid == (low + high) \div 2
      rr  == table[mid + 1]
  IN IF r < rr.first THEN [low |-> low, high |-> mid - 1, hit |-> FALSE]
     ELSE IF r > rr.last THEN [low |-> mid + 1, high |-> high, hit |-> FALSE]
     ELSE [low |-> low, high |-> high, hit |-> TRUE]

\* binarySearchWidth without the search of the zero-width table.
binarySearchWidth_NoZeroTable(r) ==
  IF binarySearch(r, wideTableGenerated) THEN 2
  ELSE IF binarySearch(r, ambiguousTableGenerated) THEN 1
  ELSE 1

binarySearchWidth(r) ==
  IF binarySearch(r, wideTableGenerated) THEN 2
  ELSE IF binarySearch(r, zeroWidthTableGenerated) THEN 0
  ELSE IF binarySearch(r, ambiguousTableGenerated) THEN 1
  ELSE 1

\* RuneWidth without the DELETE check of the ASCII tier.
RuneWidth_DelPrintable(r) ==
  IF r < \h80 THEN (IF r < \h20 THEN 0 ELSE 1)
  ELSE IF r >= \h4E00 /\ r <= \h9FFF THEN 2
  ELSE IF r >= \hAC00 /\ r <= \hD7AF THEN 2
  ELSE IF r >= \h3040 /\ r <= \h312F THEN 2
  ELSE IF r >= \hF900 /\ r <= \hFAFF THEN 2
  ELSE IF r >= \h1F600 /\ r <= \h1F64F THEN 2
  ELSE IF r >= \h1F300 /\ r <= \h1F5FF THEN 2
  ELSE IF r >= \h1F680 /\ r <= \h1F6FF THEN 2
  ELSE IF r >= \h1F900 /\ r <= \h1F9FF THEN 2
  ELSE IF r >= \h2600 /\ r <= \h26FF THEN 2
  ELSE IF r >= \h2700 /\ r <= \h27BF THEN 2
  ELSE IF r = \h200B THEN 0
  ELSE IF r = \h200C THEN 0
  ELSE IF r = \h200D THEN 0
  ELSE IF r >= \hFE00 /\ r <= \hFE0F THEN 0
  ELSE IF r >= \hE0100 /\ r <= \hE01EF THEN 0
  ELSE IF unicodeIn(r) THEN 0
  ELSE binarySearchWidth(r)

\* RuneWidth with the kana tier ending at U+30FF, as in the generator's
\* list of hot paths.
RuneWidth_KanaOnly(r) ==
  IF r < \h80 THEN (IF r < \h20 THEN 0 ELSE IF r = \h7F THEN 0 ELSE 1)
  ELSE IF r >= \h4E00 /\ r <= \h9FFF THEN 2
  ELSE IF r >= \hAC00 /\ r <= \hD7AF THEN 2
  ELSE IF r >= \h3040 /\ r <= \h30FF THEN 2
  ELSE IF r >= \hF900 /\ r <= \hFAFF THEN 2
  ELSE IF r >= \h1F600 /\ r <= \h1F64F THEN 2
  ELSE IF r >= \h1F300 /\ r <= \h1F5FF THEN 2
  ELSE IF r >= \h1F680 /\ r <= \h1F6FF THEN 2
  ELSE IF r >= \h1F900 /\ r <= \h1F9FF THEN 2
  ELSE IF r >= \h2600 /\ r <= \h26FF THEN 2
  ELSE IF r >= \h2700 /\ r <= \h27BF THEN 2
  ELSE IF r = \h200B THEN 0
  ELSE IF r = \h200C THEN 0
  ELSE IF r = \h200D THEN 0
  ELSE IF r >= \hFE00 /\ r <= \hFE0F THEN 0
  ELSE IF r >= \hE0100 /\ r <= \hE01EF THEN 0
  ELSE IF unicodeIn(r) THEN 0
  ELSE binarySearchWidth(r)

RuneWidth(r) ==
  IF r < \h80 THEN (IF r < \h20 THEN 0 ELSE IF r = \h7F THEN 0 ELSE 1)
  ELSE IF r >= \h4E00 /\ r <= \h9FFF THEN 2
  ELSE IF r >= \hAC00 /\ r <= \hD7AF THEN 2
  ELSE IF r >= \h3040 /\ r <= \h312F THEN 2
  ELSE IF r >= \hF900 /\ r <= \hFAFF THEN 2
  ELSE IF r >= \h1F600 /\ r <= \h1F64F THEN 2
  ELSE IF r >= \h1F300 /\ r <= \h1F5FF THEN 2
  ELSE IF r >= \h1F680 /\ r <= \h1F6FF THEN 2
  ELSE IF r >= \h1F900 /\ r <= \h1F9FF THEN 2
  ELSE IF r >= \h2600 /\ r <= \h26FF THEN 2
  ELSE IF r >= \h2700 /\ r <= \h27BF THEN 2
  ELSE IF r = \h200B THEN 0
  ELSE IF r = \h200C THEN 0
  ELSE IF r = \h200D THEN 0
  ELSE IF r >= \hFE00 /\ r <= \hFE0F THEN 0
  ELSE IF r >= \hE0100 /\ r <= \hE01EF THEN 0
  ELSE IF unicodeIn(r) THEN 0
  ELSE binarySearchWidth(r)

isRegionalIndicator(r) == r >= \h1F1E6 /\ r <= \h1F1FF

\* s is a Go string: a sequence of bytes.
isASCIIOnly(s) == \A k \in 1..Len(s) : ~ (s[k] >= \h80)

(***************************************************************************)
(* options.go: the classifier of the options API.                          *)
(***************************************************************************)
EANarrow == 1
EAWide == 2

defaultOptions == [EastAsianAmbiguous |-> EANarrow, EmojiPresentation |-> TRUE]

\* binarySearchWidthInternal resolving an ambiguous rune itself, as
\* binarySearchWidth does.
binarySearchWidthInternal_AmbiguousNarrow(r) ==
  IF binarySearch(r, wideTableGenerated) THEN 2
  ELSE IF binarySearch(r, zeroWidthTableGenerated) THEN 0
  ELSE IF binarySearch(r, ambiguousTableGenerated) THEN 1
  ELSE 1

binarySearchWidthInternal(r) ==
  IF binarySearch(r, wideTableGenerated) THEN 2
  ELSE IF binarySearch(r, zeroWidthTableGenerated) THEN 0
  ELSE IF binarySearch(r, ambiguousTableGenerated) THEN -1
  ELSE 1

runeWidthInternal(r) ==
  IF r < \h80 THEN (IF r < \h20 THEN 0 ELSE IF r = \h7F THEN 0 ELSE 1)
  ELSE IF r >= \h4E00 /\ r <= \h9FFF THEN 2
  ELSE IF r >= \hAC00 /\ r <= \hD7AF THEN 2
  ELSE IF r >= \h3040 /\ r <= \h30FF THEN 2
  ELSE IF r >= \hF900 /\ r <= \hFAFF THEN 2
  ELSE IF r >= \h1F600 /\ r <= \h1F64F THEN 2
  ELSE IF r >= \h1F300 /\ r <= \h1F5FF THEN 2
  ELSE IF r >= \h1F680 /\ r <= \h1F6FF THEN 2
  ELSE IF r >= \h1F900 /\ r <= \h1F9FF THEN 2
  ELSE IF r >= \h2600 /\ r <= \h26FF THEN 2
  ELSE IF r >= \h2700 /\ r <= \h27BF THEN 2
  ELSE IF r = \h200D \/ r = \h200C THEN 0
  ELSE IF r >= \hFE00 /\ r <= \hFE0F THEN 0
  ELSE IF r >= \hE0100 /\ r <= \hE01EF THEN 0
  ELSE IF \/ (r >= \h0300 /\ r <= \h036F)
          \/ (r >= \h1AB0 /\ r <= \h1AFF)
          \/ (r >= \h1DC0 /\ r <= \h1DFF)
          \/ (r >= \h20D0 /\ r <= \h20FF)
          \/ (r >= \hFE20 /\ r <= \hFE2F) THEN 0
  ELSE binarySearchWidthInternal(r)

\* type Option func(*Options): a functional option is modelled by the field
\* it assigns and the value it was built with.
WithEastAsianAmbiguous(w) == [field |-> "EastAsianAmbiguous", value |-> w]

WithEmojiPresentation(emoji) == [field |-> "EmojiPresentation", value |-> emoji]

\* An option that writes its field into a copy of the defaults.
applyOption_ResetsOther(opt, o) ==
  IF opt.field = "EastAsianAmbiguous"
  THEN [defaultOptions EXCEPT !.EastAsianAmbiguous = opt.value]
  ELSE [defaultOptions EXCEPT !.EmojiPresentation = opt.value]

\* opt(&options)
applyOption(opt, o) ==
  IF opt.field = "EastAsianAmbiguous"
  THEN [o EXCEPT !.EastAsianAmbiguous = opt.value]
  ELSE [o EXCEPT !.EmojiPresentation = opt.value]

\* RuneWidthWithOptions returning the classifier's result unresolved.
RuneWidthWithOptions_Unresolved(r, o) == runeWidthInternal(r)

\* RuneWidthWithOptions measuring an emoticon as text when emoji
\* presentation is disabled.
RuneWidthWithOptions_TextPresentation(r, o) ==
  LET w == runeWidthInternal(r)
  IN IF ~ o.EmojiPresentation /\ r >= \h1F600 /\ r <= \h1F64F THEN 1
     ELSE IF w = -1 THEN o.EastAsianAmbiguous ELSE w

\* The body of RuneWidthWithOptions once the options are built.
RuneWidthWithOptions(r, o) ==
  LET w == runeWidthInternal(r)
  IN IF w = -1 THEN o.EastAsianAmbiguous ELSE w

(***************************************************************************)
(* Go strings.  []rune(s) and "for _, r := range s" decode UTF-8; a byte   *)
(* that starts no valid encoding yields U+FFFD and is skipped alone.       *)
(***************************************************************************)
RuneError == \hFFFD

isCont(s, k, lo, hi) == k <= Len(s) /\ s[k] >= lo /\ s[k] <= hi

\* The rune that starts at byte k of s, and the number of bytes it takes.
decodeRune(s, k) ==
  LET b0 == s[k]
      bad == [rune |-> RuneError, size |-> 1]
  IN IF b0 < \h80 THEN [rune |-> b0, size |-> 1]
     ELSE IF b0 >= \hC2 /\ b0 <= \hDF
       THEN IF isCont(s, k + 1, \h80, \hBF)
            THEN [rune |-> (b0 % 32) * 64 + (s[k + 1] % 64), size |-> 2]
            ELSE bad
     ELSE IF b0 >= \hE0 /\ b0 <= \hEF
       THEN IF /\ isCont(s, k + 1, IF b0 = \hE0 THEN \hA0 ELSE \h80,
                                   IF b0 = \hED THEN \h9F ELSE \hBF)
               /\ isCont(s, k + 2, \h80, \hBF)
            THEN [rune |-> (b0 % 16) * 4096 + (s[k + 1] % 64) * 64 + (s[k + 2] % 64),
                  size |-> 3]
            ELSE bad
     ELSE IF b0 >= \hF0 /\ b0 <= \hF4
       THEN IF /\ isCont(s, k + 1, IF b0 = \hF0 THEN \h90 ELSE \h80,
                                   IF b0 = \hF4 THEN \h8F ELSE \hBF)
               /\ isCont(s, k + 2, \h80, \hBF)
               /\ isCont(s, k + 3, \h80, \hBF)
            THEN [rune |-> (b0 % 8) * 262144 + (s[k + 1] % 64) * 4096
                           + (s[k + 2] % 64) * 64 + (s[k + 3] % 64),
                  size |-> 4]
            ELSE bad
     ELSE bad

RECURSIVE decodeFrom(_, _)
decodeFrom(s, k) ==
  IF k > Len(s) THEN << >>
  ELSE LET d == decodeRune(s, k)
       IN << d.rune >> \o decodeFrom(s, k + d.size)

\* []rune(s)
decodeRunes(s) == decodeFrom(s, 1)

(***************************************************************************)
(* uniwidth.go: StringWidth.                                               *)
(***************************************************************************)
\* The ASCII fast path without the DELETE check.
asciiWidth_CountsDel(s) == Cardinality({k \in 1..Len(s) : ~ (s[k] < \h20)})

\* The ASCII fast path: the bytes that are neither control characters nor DEL.
asciiWidth(s) == Cardinality({k \in 1..Len(s) : ~ (s[k] < \h20 \/ s[k] = \h7F)})

\* The scan step with the second regional indicator of a pair not skipped.
scanStep_PairNotSkipped(runes, i, width) ==
  LET r == runes[i + 1]
  IN IF isRegionalIndicator(r) /\ i + 1 < Len(runes) /\ isRegionalIndicator(runes[i + 2])
     THEN [i |-> i + 1, width |-> width + 2]
     ELSE IF i + 1 < Len(runes) /\ runes[i + 2] = \hFE0E
     THEN [i |-> i + 2, width |-> width + 1]
     ELSE IF i + 1 < Len(runes) /\ runes[i + 2] = \hFE0F
     THEN [i |-> i + 2, width |-> width + 2]
     ELSE [i |-> i + 1, width |-> width + RuneWidth(r)]

\* The scan step with the text selector skipped but the width of the rune
\* before it not overridden.
scanStep_TextSelectorIgnored(runes, i, width) ==
  LET r == runes[i + 1]
  IN IF isRegionalIndicator(r) /\ i + 1 < Len(runes) /\ isRegionalIndicator(runes[i + 2])
     THEN [i |-> i + 2, width |-> width + 2]
     ELSE IF i + 1 < Len(runes) /\ runes[i + 2] = \hFE0E
     THEN [i |-> i + 2, width |-> width + RuneWidth(r)]
     ELSE IF i + 1 < Len(runes) /\ runes[i + 2] = \hFE0F
     THEN [i |-> i + 2, width |-> width + 2]
     ELSE [i |-> i + 1, width |-> width + RuneWidth(r)]

\* The scan step with a rune, a following ZWJ and the rune after it scored
\* as one glyph of the first rune's width.
scanStep_JoinerClusters(runes, i, width) ==
  LET r == runes[i + 1]
  IN IF isRegionalIndicator(r) /\ i + 1 < Len(runes) /\ isRegionalIndicator(runes[i + 2])
     THEN [i |-> i + 2, width |-> width + 2]
     ELSE IF i + 1 < Len(runes) /\ runes[i + 2] = \hFE0E
     THEN [i |-> i + 2, width |-> width + 1]
     ELSE IF i + 1 < Len(runes) /\ runes[i + 2] = \hFE0F
     THEN [i |-> i + 2, width |-> width + 2]
     ELSE IF i + 2 < Len(runes) /\ runes[i + 2] = \h200D
     THEN [i |-> i + 3, width |-> width + RuneWidth(r)]
     ELSE [i |-> i + 1, width |-> width + RuneWidth(r)]

\* The scan step with the index advanced twice past a variation selector.
scanStep_SelectorSkipsTwo(runes, i, width) ==
  LET r == runes[i + 1]
  IN IF isRegionalIndicator(r) /\ i + 1 < Len(runes) /\ isRegionalIndicator(runes[i + 2])
     THEN [i |-> i + 2, width |-> width + 2]
     ELSE IF i + 1 < Len(runes) /\ runes[i + 2] = \hFE0E
     THEN [i |-> i + 3, width |-> width + 1]
     ELSE IF i + 1 < Len(runes) /\ runes[i + 2] = \hFE0F
     THEN [i |-> i + 3, width |-> width + 2]
     ELSE [i |-> i + 1, width |-> width + RuneWidth(r)]

\* One iteration of the scan, loop increment included.  i is Go's 0-based
\* index, so runes[i] of the code is runes[i + 1] here.
scanStep(runes, i, width) ==
  LET r == runes[i + 1]
  IN IF isRegionalIndicator(r) /\ i + 1 < Len(runes) /\ isRegionalIndicator(runes[i + 2])
     THEN [i |-> i + 2, width |-> width + 2]
     ELSE IF i + 1 < Len(runes) /\ runes[i + 2] = \hFE0E
     THEN [i |-> i + 2, width |-> width + 1]
     ELSE IF i + 1 < Len(runes) /\ runes[i + 2] = \hFE0F
     THEN [i |-> i + 2, width |-> width + 2]
     ELSE [i |-> i + 1, width |-> width + RuneWidth(r)]

RECURSIVE scanFrom(_, _, _)
scanFrom(runes, i, width) ==
  IF i < Len(runes)
  THEN LET n == scanStep(runes, i, width) IN scanFrom(runes, n.i, n.width)
  ELSE width

StringWidth(s) ==
  IF isASCIIOnly(s) THEN asciiWidth(s)
  ELSE scanFrom(decodeRunes(s), 0, 0)

(***************************************************************************)
(* options.go: StringWidthWithOptions.                                     *)
(***************************************************************************)
\* The range loop adding the classifier's result as it is, the marker -1
\* of an ambiguous rune included.
RECURSIVE rangeFrom_Unresolved(_, _, _, _)
rangeFrom_Unresolved(runes, k, o, width) ==
  IF k > Len(runes) THEN width
  ELSE rangeFrom_Unresolved(runes, k + 1, o, width + runeWidthInternal(runes[k]))

\* The range loop over the runes of s, from rune k on.
RECURSIVE rangeFrom(_, _, _, _)
rangeFrom(runes, k, o, width) ==
  IF k > Len(runes) THEN width
  ELSE LET w == runeWidthInternal(runes[k])
       IN rangeFrom(runes, k + 1, o,
                    IF w = -1 THEN width + o.EastAsianAmbiguous ELSE width + w)

\* StringWidthWithOptions summing under the default options instead of the
\* options it built.
StringWidthWithOptions_DefaultPolicy(s, o) ==
  IF isASCIIOnly(s) THEN Len(s)
  ELSE rangeFrom(decodeRunes(s), 1, defaultOptions, 0)

\* The body of StringWidthWithOptions once the options are built.
StringWidthWithOptions(s, o) ==
  IF isASCIIOnly(s) THEN Len(s)
  ELSE rangeFrom(decodeRunes(s), 1, o, 0)

(***************************************************************************)
(* Inputs of the calls.                                                    *)
(***************************************************************************)
\* The units input strings are built from, as UTF-8 bytes: 'a', '\n', DEL,
\* U+00B1 (ambiguous), U+4E16 (CJK), U+1F1FA (regional indicator), U+FE0E,
\* U+FE0F, U+200D (ZWJ), U+1F600 (emoji), the byte 0xFF, which is not
\* valid UTF-8, and the family sequence U+1F468 U+200D U+1F469 U+200D
\* U+1F467 (man, ZWJ, woman, ZWJ, girl).
Units ==
  { << \h61 >>, << \h0A >>, << \h7F >>, << \hC2, \hB1 >>, << \hE4, \hB8, \h96 >>,
    << \hF0, \h9F, \h87, \hBA >>, << \hEF, \hB8, \h8E >>, << \hEF, \hB8, \h8F >>,
    << \hE2, \h80, \h8D >>, << \hF0, \h9F, \h98, \h80 >>, << \hFF >>,
    << \hF0, \h9F, \h91, \hA8, \hE2, \h80, \h8D, \hF0, \h9F, \h91, \hA9,
       \hE2, \h80, \h8D, \hF0, \h9F, \h91, \hA7 >> }

RECURSIVE concat(_)
concat(us) == IF us = << >> THEN << >> ELSE Head(us) \o concat(Tail(us))

Strings == { concat(us) : us \in UNION { [1..n -> Units] : n \in 0..MaxLen } }

\* Every boundary of every range the classifier or a table knows, with its
\* two neighbours, and the ends of the int32, code point and surrogate ranges.
allRanges ==
  wideHotPaths \o zeroWidthHotPaths \o ambiguousHotPaths \o generateZeroWidthRanges
  \o eawWide \o eawAmbiguous \o emojiRanges \o combiningMarks
  \o << RR(\h20, \h7E), RR(\h3040, \h312F), RR(\h200B, \h200D), RR(\h1AB0, \h1AFF),
        RR(\h1DC0, \h1DFF), RR(\h20D0, \h20FF), RR(\h1F1E6, \h1F1FF),
        RR(\hD800, \hDFFF), RR(0, \h10FFFF) >>

Runes ==
  UNION { { allRanges[k].first - 1, allRanges[k].first,
            allRanges[k].last, allRanges[k].last + 1 } : k \in 1..Len(allRanges) }
  \cup (0 .. \hA0)
  \cup { -2147483647 - 1, -2147483647, -65, 2147483646, 2147483647 }

Options == { WithEastAsianAmbiguous(EANarrow), WithEastAsianAmbiguous(EAWide),
             WithEmojiPresentation(TRUE), WithEmojiPresentation(FALSE) }

OptionLists == UNION { [1..n -> Options] : n \in 0..MaxOpts }

\* The tables and runes of the direct calls of binarySearch: every list of
\* at most MaxTable ranges over 0..MaxPoint, well formed or not, and every
\* rune from one below to one above these code points.
SearchRanges == { RR(f, l) : f \in 0..MaxPoint, l \in 0..MaxPoint }

SearchTables == UNION { [1..n -> SearchRanges] : n \in 0..MaxTable }

SearchRunes == -1 .. (MaxPoint + 1)

\* The goroutines, and the calls they choose from: each entry point, with
\* an ambiguous rune or a string that takes the loop, and option lists that
\* change the defaults.
Threads == 1..NThreads

noCall == [op |-> "none", r |-> 0, s |-> << >>, opts |-> << >>]

ConcCalls ==
  { [op |-> "RuneWidth", r |-> \h00B0, s |-> << >>, opts |-> << >>],
    [op |-> "StringWidth", r |-> 0, s |-> << \h61, \h0A >>, opts |-> << >>],
    [op |-> "StringWidth", r |-> 0,
     s |-> << \hF0, \h9F, \h87, \hBA, \hF0, \h9F, \h87, \hBA, \hC2, \hB1 >>,
     opts |-> << >>],
    [op |-> "RuneWidthWithOptions", r |-> \h00B0, s |-> << >>,
     opts |-> << WithEastAsianAmbiguous(EAWide) >>],
    [op |-> "StringWidthWithOptions", r |-> 0, s |-> << \hC2, \hB1, \h61 >>,
     opts |-> << WithEmojiPresentation(FALSE), WithEastAsianAmbiguous(EAWide) >>],
    [op |-> "StringWidthWithOptions", r |-> 0, s |-> << \hC2, \hB1, \h61 >>,
     opts |-> << >>] }

\* The local variables of an activation at its start: options :=
\* defaultOptions(), runes := []rune(s), and the loop variables.
newFrame(str) ==
  [options |-> defaultOptions, k |-> 1, runes |-> decodeRunes(str), i |-> 0, width |-> 0]

\* All goroutines using one activation's variables.
frameOf_Shared(t) == 1

\* The activation that holds the local variables of goroutine t's call:
\* its own.
frameOf(t) == t

(***************************************************************************)
(* The calls.  pc is the position of the one call in progress:             *)
(*   "idle"     no call yet                                                *)
(*   "options"  a ...WithOptions call is applying opts[k] to options       *)
(*   "scan"     StringWidth is in its loop over runes at index i           *)
(*   "search"   binarySearch is in its loop over table[low..high]          *)
(*   "done"     the call has returned ret                                  *)
(* The rune or string argument is drawn where the code first reads it.     *)
(***************************************************************************)
VARIABLES pc, op, opts, k, nopts, options, r, s, runes, i, width, ret

\* The locals of a direct call of binarySearch and its result; table is
\* also the argument of a direct call of optimizeRanges and result the list
\* it returns.
VARIABLES table, low, high, found, result

search == << table, low, high, found, result >>

\* Concurrent callers.  call[t] is the entry point goroutine t calls with
\* its arguments, callPc[t] its position, callRet[t] its result, and
\* frames[f] the local variables (options, k, runes, i, width) of the
\* activation f.
VARIABLES call, callPc, callRet, frames

conc == << call, callPc, callRet, frames >>

single == << pc, op, opts, k, nopts, options, r, s, runes, i, width, ret >>

vars ==
  << tables, conc, search, pc, op, opts, k, nopts, options, r, s, runes, i, width, ret >>

\* The call of entry point f has returned.
Done(f) == pc = "done" /\ op = f

Init ==
  /\ wideTableGenerated = generatedWide
  /\ zeroWidthTableGenerated = generatedZeroWidth
  /\ ambiguousTableGenerated = generatedAmbiguous
  /\ wideTable = wideTableInit
  /\ zeroWidthTable = zeroWidthTableInit
  /\ ambiguousTable = ambiguousTableInit
  /\ pc = "idle"
  /\ op = "none"
  /\ opts = << >>
  /\ k = 1
  /\ nopts = 0
  /\ options = defaultOptions
  /\ r = 0
  /\ s = << >>
  /\ runes = << >>
  /\ i = 0
  /\ width = 0
  /\ ret = 0
  /\ table = << >>
  /\ low = 0
  /\ high = -1
  /\ found = FALSE
  /\ result = << >>
  /\ call = [t \in Threads |-> noCall]
  /\ callPc = [t \in Threads |-> "idle"]
  /\ callRet = [t \in Threads |-> 0]
  /\ frames = [t \in Threads |-> newFrame(<< >>)]

\* RuneWidth(r)
CallRuneWidth ==
  /\ pc = "idle"
  /\ \E x \in Runes :
       /\ r' = x
       /\ ret' = RuneWidth(x)
  /\ op' = "RuneWidth"
  /\ pc' = "done"
  /\ UNCHANGED << tables, conc, search, opts, k, nopts, options, s, runes, i, width >>

\* StringWidth(s) up to the loop: the ASCII fast path returns, any other
\* string is converted to runes.
CallStringWidth ==
  /\ pc = "idle"
  /\ op' = "StringWidth"
  /\ \E x \in Strings :
       /\ s' = x
       /\ IF isASCIIOnly(x)
          THEN /\ ret' = asciiWidth(x)
               /\ pc' = "done"
               /\ UNCHANGED << runes, i, width >>
          ELSE /\ runes' = decodeRunes(x)
               /\ i' = 0
               /\ width' = 0
               /\ pc' = "scan"
               /\ UNCHANGED ret
  /\ UNCHANGED << tables, conc, search, opts, k, nopts, options, r >>

\* One iteration of StringWidth's loop.
ScanStep ==
  /\ pc = "scan"
  /\ i < Len(runes)
  /\ LET n == scanStep(runes, i, width)
     IN /\ i' = n.i
        /\ width' = n.width
  /\ UNCHANGED << tables, conc, search, pc, op, opts, k, nopts, options, r, s, runes, ret >>

\* The loop condition fails: return width.
ScanReturn ==
  /\ pc = "scan"
  /\ ~ (i < Len(runes))
  /\ ret' = width
  /\ pc' = "done"
  /\ UNCHANGED << tables, conc, search, op, opts, k, nopts, options, r, s, runes, i, width >>

\* RuneWidthWithOptions(r, opts...) or StringWidthWithOptions(s, opts...):
\* options := defaultOptions().  The call is the first one, or follows a
\* call of StringWidthWithOptions that has returned for the empty string
\* under its own options; the options of the call are a new local value.
CallWithOptions ==
  /\ pc = "idle" \/ (Done("StringWidthWithOptions") /\ s = << >>)
  /\ \E f \in { "RuneWidthWithOptions", "StringWidthWithOptions" } : op' = f
  /\ \E o \in OptionLists :
       /\ opts' = o
       /\ nopts' = Len(o)
  /\ k' = 1
  /\ options' = defaultOptions
  /\ pc' = "options"
  /\ r' = 0
  /\ s' = << >>
  /\ ret' = 0
  /\ UNCHANGED << tables, conc, search, runes, i, width >>

\* for _, opt := range opts { opt(&options) }
ApplyOption ==
  /\ pc = "options"
  /\ k <= Len(opts)
  /\ options' = applyOption(opts[k], options)
  /\ k' = k + 1
  /\ UNCHANGED << tables, conc, search, pc, op, opts, nopts, r, s, runes, i, width, ret >>

\* The rest of RuneWidthWithOptions.
RuneWithOptionsReturn ==
  /\ pc = "options"
  /\ op = "RuneWidthWithOptions"
  /\ k > Len(opts)
  /\ \E x \in Runes :
       /\ r' = x
       /\ ret' = RuneWidthWithOptions(x, options)
  /\ opts' = << >>
  /\ k' = 1
  /\ pc' = "done"
  /\ UNCHANGED << tables, conc, search, op, nopts, options, s, runes, i, width >>

\* The rest of StringWidthWithOptions.
StringWithOptionsReturn ==
  /\ pc = "options"
  /\ op = "StringWidthWithOptions"
  /\ k > Len(opts)
  /\ \E x \in Strings :
       /\ s' = x
       /\ ret' = StringWidthWithOptions(x, options)
  /\ opts' = << >>
  /\ k' = 1
  /\ pc' = "done"
  /\ UNCHANGED << tables, conc, search, op, nopts, options, r, runes, i, width >>

\* binarySearch(r, table) up to the loop.
CallBinarySearch ==
  /\ pc = "idle"
  /\ op' = "binarySearch"
  /\ \E x \in SearchRunes : r' = x
  /\ \E t \in SearchTables :
       /\ table' = t
       /\ low' = 0
       /\ high' = Len(t) - 1
  /\ pc' = "search"
  /\ UNCHANGED << tables, conc, found, result, opts, k, nopts, options, s, runes, i, width, ret >>

\* One iteration of binarySearch's loop.
SearchStep ==
  /\ pc = "search"
  /\ low <= high
  /\ LET n == searchStep(r, table, low, high)
     IN /\ low' = n.low
        /\ high' = n.high
        /\ IF n.hit
           THEN found' = TRUE /\ pc' = "done"
           ELSE UNCHANGED << found, pc >>
  /\ UNCHANGED << tables, conc, table, result, op, opts, k, nopts, options, r, s, runes,
                  i, width, ret >>

\* The loop condition fails: return false.
SearchReturn ==
  /\ pc = "search"
  /\ ~ (low <= high)
  /\ found' = FALSE
  /\ pc' = "done"
  /\ UNCHANGED << tables, conc, table, low, high, result, op, opts, k, nopts, options,
                  r, s, runes, i, width, ret >>

\* optimizeRanges(ranges)
CallOptimizeRanges ==
  /\ pc = "idle"
  /\ op' = "optimizeRanges"
  /\ \E t \in SearchTables :
       /\ table' = t
       /\ result' = optimizeRanges(t)
  /\ pc' = "done"
  /\ UNCHANGED << tables, conc, low, high, found, opts, k, nopts, options, r, s, runes,
                  i, width, ret >>

Next ==
  \/ CallRuneWidth
  \/ CallStringWidth
  \/ ScanStep
  \/ ScanReturn
  \/ CallWithOptions
  \/ ApplyOption
  \/ RuneWithOptionsReturn
  \/ StringWithOptionsReturn
  \/ CallBinarySearch
  \/ SearchStep
  \/ SearchReturn
  \/ CallOptimizeRanges

Spec == Init /\ [][Next]_vars

(***************************************************************************)
(* Concurrent calls: every goroutine makes one call, and the steps of the  *)
(* calls interleave.                                                       *)
(***************************************************************************)
\* Goroutine t enters an entry point.  RuneWidth and the ASCII fast path of
\* StringWidth read only their argument and the tables and return.
ConcCall(t) ==
  /\ callPc[t] = "idle"
  /\ \E c \in ConcCalls :
       /\ call' = [call EXCEPT ![t] = c]
       /\ frames' = [frames EXCEPT ![frameOf(t)] = newFrame(c.s)]
       /\ IF c.op = "RuneWidth"
          THEN /\ callRet' = [callRet EXCEPT ![t] = RuneWidth(c.r)]
               /\ callPc' = [callPc EXCEPT ![t] = "done"]
          ELSE IF c.op = "StringWidth" /\ isASCIIOnly(c.s)
          THEN /\ callRet' = [callRet EXCEPT ![t] = asciiWidth(c.s)]
               /\ callPc' = [callPc EXCEPT ![t] = "done"]
          ELSE IF c.op = "StringWidth"
          THEN /\ callPc' = [callPc EXCEPT ![t] = "scan"]
               /\ UNCHANGED callRet
          ELSE /\ callPc' = [callPc EXCEPT ![t] = "options"]
               /\ UNCHANGED callRet
  /\ UNCHANGED << tables, search, single >>

\* One iteration of StringWidth's loop in goroutine t.
ConcScanStep(t) ==
  /\ callPc[t] = "scan"
  /\ LET f == frames[frameOf(t)]
     IN /\ f.i < Len(f.runes)
        /\ LET n == scanStep(f.runes, f.i, f.width)
           IN frames' = [frames EXCEPT ![frameOf(t)].i = n.i,
                                       ![frameOf(t)].width = n.width]
  /\ UNCHANGED << tables, search, single, call, callPc, callRet >>

\* StringWidth returns in goroutine t.
ConcScanReturn(t) ==
  /\ callPc[t] = "scan"
  /\ LET f == frames[frameOf(t)]
     IN /\ ~ (f.i < Len(f.runes))
        /\ callRet' = [callRet EXCEPT ![t] = f.width]
  /\ callPc' = [callPc EXCEPT ![t] = "done"]
  /\ UNCHANGED << tables, search, single, call, frames >>

\* opt(&options) in goroutine t.
ConcApplyOption(t) ==
  /\ callPc[t] = "options"
  /\ LET f == frames[frameOf(t)]
     IN /\ f.k <= Len(call[t].opts)
        /\ frames' = [frames EXCEPT
                        ![frameOf(t)].options = applyOption(call[t].opts[f.k], f.options),
                        ![frameOf(t)].k = f.k + 1]
  /\ UNCHANGED << tables, search, single, call, callPc, callRet >>

\* The rest of RuneWidthWithOptions or StringWidthWithOptions in goroutine t.
ConcOptionsReturn(t) ==
  /\ callPc[t] = "options"
  /\ LET f == frames[frameOf(t)]
     IN /\ f.k > Len(call[t].opts)
        /\ callRet' = [callRet EXCEPT ![t] =
                         IF call[t].op = "RuneWidthWithOptions"
                         THEN RuneWidthWithOptions(call[t].r, f.options)
                         ELSE StringWidthWithOptions(call[t].s, f.options)]
  /\ callPc' = [callPc EXCEPT ![t] = "done"]
  /\ UNCHANGED << tables, search, single, call, frames >>

ConcNext ==
  \E t \in Threads :
    \/ ConcCall(t)
    \/ ConcScanStep(t)
    \/ ConcScanReturn(t)
    \/ ConcApplyOption(t)
    \/ ConcOptionsReturn(t)

ConcSpec == Init /\ [][ConcNext]_vars

(***************************************************************************)
(* Properties.                                                             *)
(***************************************************************************)
\* The sum of RuneWidth over a sequence of runes.
RECURSIVE sumRuneWidth(_)
sumRuneWidth(rs) == IF rs = << >> THEN 0 ELSE RuneWidth(Head(rs)) + sumRuneWidth(Tail(rs))

\* C1: RuneWidth and RuneWidthWithOptions return 0, 1 or 2 for every int32
\* rune (negative, surrogate and above U+10FFFF included) and every options
\* value with EastAsianAmbiguous in {EANarrow, EAWide}; the marker -1 of
\* runeWidthInternal never reaches the caller.
C1_WidthInRange ==
  (Done("RuneWidth") \/ Done("RuneWidthWithOptions")) => ret \in { 0, 1, 2 }

\* An ambiguous rune resolved under EAWide.
C1_Witness ==
  /\ Done("RuneWidthWithOptions")
  /\ runeWidthInternal(r) = -1
  /\ options.EastAsianAmbiguous = EAWide
  /\ ret = 2

\* C2: RuneWidth is 1 on 0x20..0x7E and 0 on 0x00..0x1F and on 0x7F.
C2_AsciiExact ==
  Done("RuneWidth") =>
    /\ (r >= \h20 /\ r <= \h7E) => ret = 1
    /\ ((r >= \h00 /\ r <= \h1F) \/ r = \h7F) => ret = 0

\* RuneWidth has returned for DEL.
C2_Witness == Done("RuneWidth") /\ r = \h7F /\ ret = 0

\* C3: every rune outside 0..0x10FFFF and every surrogate has RuneWidth 1.
C3_InvalidIsNarrow ==
  (Done("RuneWidth") /\ (r < 0 \/ r > \h10FFFF \/ (r >= \hD800 /\ r <= \hDFFF)))
    => ret = 1

\* C4: StringWidthWithOptions without options returns what StringWidth returns.
C4_NoOptionsIsStringWidth ==
  (Done("StringWidthWithOptions") /\ nopts = 0) => ret = StringWidth(s)

\* C5: RuneWidthWithOptions without options returns what RuneWidth returns.
C5_NoOptionsIsRuneWidth ==
  (Done("RuneWidthWithOptions") /\ nopts = 0) => ret = RuneWidth(r)

C7_OptionsAsciiFastPath ==
  (Done("StringWidthWithOptions") /\ isASCIIOnly(s)) =>
    /\ ret = Cardinality({ n \in 1..Len(s) : s[n] >= \h20 /\ s[n] # \h7F })
    /\ ret = StringWidth(s)

\* The length of the run of regional indicators that rs starts with.
RECURSIVE runLength(_)
runLength(rs) ==
  IF rs = << >> \/ ~ isRegionalIndicator(Head(rs)) THEN 0
  ELSE 1 + runLength(Tail(rs))

\* The width of rs with every maximal run of n regional indicators counted
\* as floor(n/2) flags of width 2 plus, for odd n, the last indicator alone,
\* and every other rune counted alone.
RECURSIVE widthByRuns(_)
widthByRuns(rs) ==
  IF rs = << >> THEN 0
  ELSE IF isRegionalIndicator(Head(rs))
  THEN LET n == runLength(rs)
       IN 2 * (n \div 2) + (n % 2) * RuneWidth(rs[n])
          + widthByRuns(SubSeq(rs, n + 1, Len(rs)))
  ELSE RuneWidth(Head(rs)) + widthByRuns(Tail(rs))

hasSelector(rs) == \E n \in 1..Len(rs) : rs[n] = \hFE0E \/ rs[n] = \hFE0F

\* A step of the scan at two regional indicators adds 2 and consumes both.
C8_PairStep ==
  (/\ pc = "scan"
   /\ i + 1 < Len(runes)
   /\ isRegionalIndicator(runes[i + 1])
   /\ isRegionalIndicator(runes[i + 2]))
  => (i' = i + 2 /\ width' = width + 2)

\* The scan of a string without variation selectors pairs every run of
\* regional indicators greedily from its left end.
C8_Runs ==
  (Done("StringWidth") /\ ~ isASCIIOnly(s) /\ ~ hasSelector(runes))
    => ret = widthByRuns(runes)

\* C8: in StringWidth's scan two regional indicators at the current index
\* add exactly 2 and are both consumed, and pairing is greedy from the left:
\* a maximal run of n indicators contributes 2*floor(n/2), plus the width of
\* the one left over when n is odd.
C8_RegionalIndicatorPairs == [][C8_PairStep]_vars /\ []C8_Runs

\* StringWidth has returned for a run of three regional indicators: one
\* flag and one indicator left over.
C8_Witness ==
  /\ Done("StringWidth")
  /\ Len(runes) = 3
  /\ \A n \in 1..3 : isRegionalIndicator(runes[n])
  /\ ret = 2 + RuneWidth(runes[3])

\* A step of the scan where the regional-indicator rule does not apply and
\* the next rune is a variation selector adds 1 for U+FE0E and 2 for U+FE0F,
\* and consumes the selector.
C9_SelectorStep ==
  (/\ pc = "scan"
   /\ i + 1 < Len(runes)
   /\ ~ (isRegionalIndicator(runes[i + 1]) /\ isRegionalIndicator(runes[i + 2]))
   /\ runes[i + 2] \in { \hFE0E, \hFE0F })
  => /\ i' = i + 2
     /\ width' = width + (IF runes[i + 2] = \hFE0E THEN 1 ELSE 2)

\* A rune of any width class followed by a selector, and nothing else.
C9_Pairs ==
  (Done("StringWidth") /\ Len(runes) = 2 /\ runes[2] \in { \hFE0E, \hFE0F })
    => ret = (IF runes[2] = \hFE0E THEN 1 ELSE 2)

\* C9: in StringWidth's scan, when the regional-indicator rule does not
\* apply and the next rune is U+FE0E the pair adds exactly 1, when it is
\* U+FE0F exactly 2, whatever the width class of the rune at the current
\* index, and the selector is consumed without a width of its own.
C9_VariationSelectors == [][C9_SelectorStep]_vars /\ []C9_Pairs

\* StringWidth has returned 1 for a control character followed by U+FE0E.
C9_Witness ==
  /\ Done("StringWidth")
  /\ runes = << \h0A, \hFE0E >>
  /\ ret = 1

\* The composition of the two pair rules with the per-rune width resolved
\* through the options, from index n (0-based) on.
RECURSIVE composeFrom(_, _, _)
composeFrom(rs, n, o) ==
  IF ~ (n < Len(rs)) THEN 0
  ELSE IF n + 1 < Len(rs) /\ isRegionalIndicator(rs[n + 1]) /\ isRegionalIndicator(rs[n + 2])
  THEN 2 + composeFrom(rs, n + 2, o)
  ELSE IF n + 1 < Len(rs) /\ rs[n + 2] = \hFE0E
  THEN 1 + composeFrom(rs, n + 2, o)
  ELSE IF n + 1 < Len(rs) /\ rs[n + 2] = \hFE0F
  THEN 2 + composeFrom(rs, n + 2, o)
  ELSE RuneWidthWithOptions(rs[n + 1], o) + composeFrom(rs, n + 1, o)

\* C10: StringWidthWithOptions composes like StringWidth under every
\* options value: two regional indicators add 2, a rune followed by U+FE0E
\* adds 1, a rune followed by U+FE0F adds 2, and only otherwise the rune's
\* width is resolved through the options.
C10_OptionsCompose ==
  (Done("StringWidthWithOptions") /\ ~ isASCIIOnly(s))
    => ret = composeFrom(decodeRunes(s), 0, options)

\* The tiers runeWidthInternal decides before its fallback, as ranges.
internalHotRanges ==
  << RR(-2147483647 - 1, \h7F), RR(\h4E00, \h9FFF), RR(\hAC00, \hD7AF),
     RR(\h3040, \h30FF), RR(\hF900, \hFAFF), RR(\h1F600, \h1F64F),
     RR(\h1F300, \h1F5FF), RR(\h1F680, \h1F6FF), RR(\h1F900, \h1F9FF),
     RR(\h2600, \h26FF), RR(\h2700, \h27BF), RR(\h200C, \h200D),
     RR(\hFE00, \hFE0F), RR(\hE0100, \hE01EF), RR(\h0300, \h036F),
     RR(\h1AB0, \h1AFF), RR(\h1DC0, \h1DFF), RR(\h20D0, \h20FF),
     RR(\hFE20, \hFE2F) >>

\* A code point of the Ambiguous class: it reaches the fallback, is in the
\* ambiguous table and in neither the wide nor the zero-width table.
classAmbiguous(x) ==
  /\ ~ Covers(internalHotRanges, x)
  /\ Covers(ambiguousTableGenerated, x)
  /\ ~ Covers(wideTableGenerated, x)
  /\ ~ Covers(zeroWidthTableGenerated, x)

\* The number of code points of the Ambiguous class in a sequence of runes.
ambiguousCount(rs) == Cardinality({ n \in 1..Len(rs) : classAmbiguous(rs[n]) })

otherAmbiguous(o) ==
  [o EXCEPT !.EastAsianAmbiguous = IF @ = EAWide THEN EANarrow ELSE EAWide]

\* C11: for every string the width under EAWide is the width under
\* EANarrow plus the number of ambiguous code points of the string, so it
\* is never smaller, and equal exactly when the string has none.
C11_AmbiguousToggling ==
  Done("StringWidthWithOptions") =>
    LET other  == StringWidthWithOptions(s, otherAmbiguous(options))
        wide   == IF options.EastAsianAmbiguous = EAWide THEN ret ELSE other
        narrow == IF options.EastAsianAmbiguous = EAWide THEN other ELSE ret
        n      == ambiguousCount(decodeRunes(s))
    IN /\ wide >= narrow
       /\ (wide = narrow) <=> (n = 0)
       /\ wide - narrow = n

\* StringWidthWithOptions has returned under EAWide for a string of two
\* ambiguous code points and a narrow one.
C11_Witness ==
  /\ Done("StringWidthWithOptions")
  /\ options.EastAsianAmbiguous = EAWide
  /\ Len(decodeRunes(s)) = 3
  /\ ambiguousCount(decodeRunes(s)) = 2
  /\ ret = StringWidthWithOptions(s, otherAmbiguous(options)) + 2

\* The width class of a code point that is not of the Ambiguous class, as
\* the classifier of the options API sees it.
classWidth(x) ==
  IF Covers(internalHotRanges, x) THEN runeWidthInternal(x)
  ELSE IF Covers(wideTableGenerated, x) THEN 2
  ELSE IF Covers(zeroWidthTableGenerated, x) THEN 0
  ELSE 1

\* C12: RuneWidthWithOptions returns the EastAsianAmbiguous setting for a
\* code point of the Ambiguous class, and for every other code point the
\* width of its class (0, 1 or 2), the same under EANarrow and EAWide.
C12_AmbiguousResolved ==
  Done("RuneWidthWithOptions") =>
    IF classAmbiguous(r)
    THEN ret = options.EastAsianAmbiguous
    ELSE /\ ret = classWidth(r)
         /\ ret \in { 0, 1, 2 }
         /\ ret = RuneWidthWithOptions(r, otherAmbiguous(options))

\* RuneWidthWithOptions has returned 2 for U+00B0 under EAWide.
C12_Witness ==
  /\ Done("RuneWidthWithOptions")
  /\ r = \h00B0
  /\ classAmbiguous(r)
  /\ options.EastAsianAmbiguous = EAWide
  /\ ret = 2

\* The hot wide-script ranges and the hot emoji ranges of RuneWidth.
hotWideScript ==
  << RR(\h4E00, \h9FFF), RR(\hAC00, \hD7AF), RR(\h3040, \h312F), RR(\hF900, \hFAFF) >>

hotEmoji ==
  << RR(\h1F600, \h1F64F), RR(\h1F300, \h1F5FF), RR(\h1F680, \h1F6FF),
     RR(\h1F900, \h1F9FF), RR(\h2600, \h26FF), RR(\h2700, \h27BF) >>

combiningBlocks ==
  << RR(\h0300, \h036F), RR(\h1AB0, \h1AFF), RR(\h1DC0, \h1DFF),
     RR(\h20D0, \h20FF), RR(\hFE20, \hFE2F) >>

\* C14: RuneWidth returns 0 for U+200C, U+200D, the variation selectors
\* 0xFE00..0xFE0F and 0xE0100..0xE01EF, every code point of category Mn, Me
\* or Mc, and every code point of the five combining-mark blocks.
C14_ZeroWidthTier ==
  (/\ Done("RuneWidth")
   /\ \/ r \in { \h200C, \h200D }
      \/ (r >= \hFE00 /\ r <= \hFE0F)
      \/ (r >= \hE0100 /\ r <= \hE01EF)
      \/ unicodeIn(r)
      \/ Covers(combiningBlocks, r))
    => ret = 0

otherPresentation(o) == [o EXCEPT !.EmojiPresentation = ~ @]

C16_TextPresentationNarrow ==
  (/\ Done("StringWidthWithOptions")
   /\ decodeRunes(s) = << \h1F600 >>
   /\ nopts = 1
   /\ options.EastAsianAmbiguous = EANarrow)
    => ret = (IF options.EmojiPresentation THEN 2 ELSE 1)

\* The RangeTable invariants: every entry has first <= last, the entries
\* are sorted ascending by first, and no two entries overlap or touch.
rangeOrdered(t) == \A n \in 1..Len(t) : t[n].first <= t[n].last

sortedByFirst(t) == \A n \in 1..(Len(t) - 1) : t[n].first < t[n + 1].first

rangesTouch(a, b) == a.first <= b.last + 1 /\ b.first <= a.last + 1

rangesApart(t) ==
  \A m, n \in 1..Len(t) : m # n => ~ rangesTouch(t[m], t[n])

rangeTableInvariant(t) ==
  rangeOrdered(t) /\ sortedByFirst(t) /\ rangesApart(t)

\* C17: each of the three tables of tables.go satisfies the RangeTable
\* invariants.
C17_HandWrittenTablesWellFormed ==
  /\ rangeTableInvariant(wideTable)
  /\ rangeTableInvariant(zeroWidthTable)
  /\ rangeTableInvariant(ambiguousTable)

\* The intervals RuneWidth decides by a range check before its fallback.
hotTiers ==
  << RR(\h00, \h7F) >> \o hotWideScript \o hotEmoji
  \o << RR(\h200B, \h200D), RR(\hFE00, \hFE0F), RR(\hE0100, \hE01EF) >>

avoidsHotTiers(t) ==
  \A n \in 1..Len(t) : \A h \in 1..Len(hotTiers) :
    ~ rangesOverlap(t[n], hotTiers[h])

\* C18: no entry of a fallback table intersects an interval a hot tier of
\* RuneWidth handles, neither in the tables of tables.go nor in the tables
\* the generator emits.
C18_TablesAvoidHotTiers ==
  /\ avoidsHotTiers(wideTable)
  /\ avoidsHotTiers(zeroWidthTable)
  /\ avoidsHotTiers(ambiguousTable)
  /\ avoidsHotTiers(wideTableGenerated)
  /\ avoidsHotTiers(zeroWidthTableGenerated)
  /\ avoidsHotTiers(ambiguousTableGenerated)

\* The tier conditions of RuneWidth that hold for a rune, each with the
\* width its branch returns, given the three fallback tables as sets of
\* code points.
tiersHolding(x, inWide, inZero, inAmbiguous) ==
  (IF x < \h80 THEN { << "ascii", IF x < \h20 \/ x = \h7F THEN 0 ELSE 1 >> } ELSE { })
  \cup (IF Covers(hotWideScript, x) THEN { << "hot wide", 2 >> } ELSE { })
  \cup (IF Covers(hotEmoji, x) THEN { << "hot emoji", 2 >> } ELSE { })
  \cup (IF \/ x \in { \h200B, \h200C, \h200D }
           \/ (x >= \hFE00 /\ x <= \hFE0F)
           \/ (x >= \hE0100 /\ x <= \hE01EF)
           \/ unicodeIn(x)
        THEN { << "hot zero", 0 >> } ELSE { })
  \cup (IF inWide THEN { << "wide table", 2 >> } ELSE { })
  \cup (IF inZero THEN { << "zero table", 0 >> } ELSE { })
  \cup (IF inAmbiguous THEN { << "ambiguous table", 1 >> } ELSE { })

tiersGenerated(x) ==
  tiersHolding(x, binarySearch(x, wideTableGenerated),
               binarySearch(x, zeroWidthTableGenerated),
               binarySearch(x, ambiguousTableGenerated))

tiersHandWritten(x) ==
  tiersHolding(x, Covers(wideTable, x), Covers(zeroWidthTable, x),
               Covers(ambiguousTable, x))

\* C19: for every rune at most one tier condition of RuneWidth holds, with
\* the generated tables and with the tables of tables.go, so the width
\* RuneWidth returns is the width of whichever holding tier is tried first.
C19_TiersExclusive ==
  Done("RuneWidth") =>
    /\ Cardinality(tiersGenerated(r)) <= 1
    /\ Cardinality(tiersHandWritten(r)) <= 1
    /\ \A tier \in tiersGenerated(r) : tier[2] = ret

rangesDisjoint(t) ==
  \A m, n \in 1..Len(t) : m # n => ~ rangesOverlap(t[m], t[n])

\* C20: on a table sorted ascending by first whose entries have
\* first <= last and are pairwise disjoint, binarySearch returns true
\* exactly when some entry contains the rune; on the empty table it
\* returns false.
C20_BinarySearchFindsMembers ==
  (/\ Done("binarySearch")
   /\ rangeOrdered(table)
   /\ sortedByFirst(table)
   /\ rangesDisjoint(table))
    => /\ found <=> Covers(table, r)
       /\ found = binarySearch(r, table)
       /\ Len(table) = 0 => ~ found

\* binarySearch has found a rune in the last of three entries.
C20_Witness ==
  /\ Done("binarySearch")
  /\ Len(table) = 3
  /\ rangeOrdered(table) /\ sortedByFirst(table) /\ rangesDisjoint(table)
  /\ r = table[3].first
  /\ found

hasIndicatorPair(rs) ==
  \E n \in 1..(Len(rs) - 1) : isRegionalIndicator(rs[n]) /\ isRegionalIndicator(rs[n + 1])

\* C21: StringWidth scores the code points of a sequence joined by U+200D
\* one by one: without a variation selector and without two adjacent
\* regional indicators the result is the sum of RuneWidth over the code
\* points, the joiner counting 0, so X ZWJ Y has width RuneWidth(X) +
\* RuneWidth(Y) and man ZWJ woman ZWJ girl has width 6.
C21_JoinerSequencesSummed ==
  (/\ Done("StringWidth")
   /\ \E n \in 1..Len(runes) : runes[n] = \h200D
   /\ ~ hasSelector(runes)
   /\ ~ hasIndicatorPair(runes))
    => /\ ret = sumRuneWidth(runes)
       /\ RuneWidth(\h200D) = 0
       /\ (Len(runes) = 3 /\ runes[2] = \h200D)
            => ret = RuneWidth(runes[1]) + 0 + RuneWidth(runes[3])

\* StringWidth has returned 6 for man, ZWJ, woman, ZWJ, girl.
C21_Witness ==
  /\ Done("StringWidth")
  /\ runes = << \h1F468, \h200D, \h1F469, \h200D, \h1F467 >>
  /\ ret = 6

\* The options a call builds from its list: the defaults with the options
\* applied in order, from option n on.
RECURSIVE buildOptions(_, _, _)
buildOptions(os, n, o) ==
  IF n > Len(os) THEN o ELSE buildOptions(os, n + 1, applyOption(os[n], o))

\* What a call returns when it runs alone.
resultAlone(c) ==
  IF c.op = "RuneWidth" THEN RuneWidth(c.r)
  ELSE IF c.op = "StringWidth" THEN StringWidth(c.s)
  ELSE IF c.op = "RuneWidthWithOptions"
  THEN RuneWidthWithOptions(c.r, buildOptions(c.opts, 1, defaultOptions))
  ELSE StringWidthWithOptions(c.s, buildOptions(c.opts, 1, defaultOptions))

C22_SameResult ==
  \A t \in Threads : callPc[t] = "done" => callRet[t] = resultAlone(call[t])

\* C22: in every interleaving of the steps of concurrent calls of the four
\* entry points, each call returns what it returns when it runs alone, and
\* no step changes the range tables.
C22_ConcurrentCalls == []C22_SameResult /\ [][tables' = tables]_vars

\* Two calls of StringWidthWithOptions that built different options have
\* both returned, one with the ambiguous rune wide and one with it narrow.
C22_Witness ==
  /\ callPc[1] = "done" /\ callPc[2] = "done"
  /\ call[1].op = "StringWidthWithOptions" /\ call[2].op = "StringWidthWithOptions"
  /\ callRet[1] = 3 /\ callRet[2] = 2
  /\ frames[1].options # frames[2].options

\* C23: RuneWidth returns 0 for every control character: the C0 controls
\* 0x00..0x1F, DELETE 0x7F, and the C1 controls 0x80..0x9F, which the
\* zero-width table holds.
C23_ControlsZero ==
  Done("RuneWidth") =>
    /\ ((r >= \h00 /\ r <= \h1F) \/ r = \h7F) => ret = 0
    /\ (r >= \h80 /\ r <= \h9F) =>
         (ret = 0 /\ binarySearch(r, zeroWidthTableGenerated))

\* RuneWidth has returned 0 for U+0085 (NEL), a C1 control.
C23_Witness == Done("RuneWidth") /\ r = \h85 /\ ret = 0

\* A code point of an input range that no hot path handles is still covered
\* by the filtered and optimized table.
keepsCoverage(input, hotPaths, output, x) ==
  (Covers(input, x) /\ ~ Covers(hotPaths, x)) => Covers(output, x)

\* C24: the generator's hot-path filtering keeps every code point of its
\* input that lies in no hot-path range, for each of the three tables; in
\* particular U+200B, U+200E and U+200F of the zero-width range
\* 0x200B..0x200F stay covered by the zero-width table.
C24_FilterKeepsCoverage ==
  Done("RuneWidth") =>
    /\ keepsCoverage(generateZeroWidthRanges, zeroWidthHotPaths,
                     zeroWidthTableGenerated, r)
    /\ keepsCoverage(mergeRanges(eawWide, emojiRanges), wideHotPaths,
                     wideTableGenerated, r)
    /\ keepsCoverage(eawAmbiguous, ambiguousHotPaths, ambiguousTableGenerated, r)

\* C25: for a non-empty list of ranges with first <= last, in any order,
\* optimizeRanges returns a list sorted ascending by first whose
\* consecutive entries neither overlap nor touch and which covers exactly
\* the code points the input covers.
C25_OptimizeRanges ==
  (Done("optimizeRanges") /\ Len(table) > 0 /\ rangeOrdered(table)) =>
    /\ sortedByFirst(result)
    /\ \A n \in 1..(Len(result) - 1) : result[n + 1].first > result[n].last + 1
    /\ \A x \in SearchRunes : Covers(result, x) <=> Covers(table, x)

\* optimizeRanges has merged three unsorted ranges, two of them
\* overlapping and one adjacent, into one.
C25_Witness ==
  /\ Done("optimizeRanges")
  /\ table = << RR(2, 2), RR(0, 1), RR(0, 0) >>
  /\ result = << RR(0, 2) >>

\* An iteration of the scan advances the index by 1 or by 2, by 2 only
\* when a second rune is there to be consumed, and never past the end.
C26_IndexAdvances ==
  (pc = "scan" /\ i < Len(runes)) =>
    /\ i' = i + 1 \/ (i' = i + 2 /\ i + 1 < Len(runes))
    /\ i' <= Len(runes)
    /\ pc' = "scan"

\* The index stays within the rune slice, the iteration about to run moves
\* it forward, and the scan returns exactly when the index has reached the
\* end of the slice.
C26_IndexInRange ==
  /\ pc = "scan" => (i >= 0 /\ i <= Len(runes))
  /\ (pc = "scan" /\ i < Len(runes)) =>
       LET n == scanStep(runes, i, width)
       IN n.i > i /\ n.i <= Len(runes)
  /\ (Done("StringWidth") /\ ~ isASCIIOnly(s)) => i = Len(runes)

\* C26: StringWidth's scan terminates: every iteration advances the index
\* by 1 or 2, the rune after the current one is read only when it exists,
\* and the loop ends exactly when the index reaches the end of the slice,
\* so every code point is consumed once, alone or as the second of a pair.
C26_ScanTerminates == [][C26_IndexAdvances]_vars /\ []C26_IndexInRange

\* The scan has ended at the end of a three-rune slice whose last two
\* runes were consumed as one pair.
C26_Witness ==
  /\ Done("StringWidth")
  /\ Len(runes) = 3
  /\ i = 3
  /\ ~ isRegionalIndicator(runes[1]) /\ runes[2] # \hFE0E /\ runes[2] # \hFE0F
  /\ isRegionalIndicator(runes[2]) /\ isRegionalIndicator(runes[3])
  /\ ret = RuneWidth(runes[1]) + 2

\* An iteration of binarySearch either returns true or leaves a strictly
\* smaller high - low.
C27_IntervalShrinks ==
  (pc = "search" /\ low <= high) =>
    \/ pc' = "done" /\ found'
    \/ pc' = "search" /\ high' - low' < high - low

\* While the loop runs, low and high bound an index interval of the table,
\* so mid is an index of the table whenever the loop body is entered,
\* high - low never falls below -1, and the iteration about to run returns
\* true or shrinks high - low.
C27_MidInTable ==
  pc = "search" =>
    /\ low >= 0
    /\ high <= Len(table) - 1
    /\ high - low >= -1
    /\ low <= high => (low + high) \div 2 \in 0 .. (Len(table) - 1)
    /\ low <= high =>
         LET n == searchStep(r, table, low, high)
         IN n.hit \/ n.high - n.low < high - low

\* C27: binarySearch terminates for every rune and every table, the empty
\* table and tables that are unsorted or hold an entry with first > last
\* included: every iteration that does not return shrinks high - low, and
\* mid stays an index of the table.
C27_BinarySearchTerminates == [][C27_IntervalShrinks]_vars /\ []C27_MidInTable

\* binarySearch has returned false on a three-entry table that is unsorted
\* and holds an entry with first > last.
C27_Witness ==
  /\ Done("binarySearch")
  /\ Len(table) = 3
  /\ table[2].first > table[2].last
  /\ table[1].first > table[3].first
  /\ ~ found
  /\ low = high + 1

\* The argument of the last option for a field among the first n of a
\* list, or the default when there is none.
lastArgument(os, n, field, default) ==
  LET set == { j \in 1..n : os[j].field = field }
  IN IF set = { } THEN default
     ELSE os[CHOOSE j \in set : \A m \in set : m <= j].value

\* C28: while a call applies its options in order, starting from the
\* defaults {EANarrow, true}, each field of options holds the argument of
\* the last option for that field applied so far, or its default; the
\* option about to be applied changes only its own field; and a call that
\* follows a call with other options starts from the defaults again.
C28_LastOptionWins ==
  pc = "options" =>
    /\ k \in 1 .. (Len(opts) + 1)
    /\ options.EastAsianAmbiguous =
         lastArgument(opts, k - 1, "EastAsianAmbiguous", EANarrow)
    /\ options.EmojiPresentation =
         lastArgument(opts, k - 1, "EmojiPresentation", TRUE)
    /\ k = 1 => options = [EastAsianAmbiguous |-> EANarrow, EmojiPresentation |-> TRUE]
    /\ k <= Len(opts) =>
         LET o == applyOption(opts[k], options)
         IN /\ opts[k].field = "EastAsianAmbiguous" =>
                 o.EmojiPresentation = options.EmojiPresentation
            /\ opts[k].field = "EmojiPresentation" =>
                 o.EastAsianAmbiguous = options.EastAsianAmbiguous

\* The same field was set twice: the later argument holds, and the other
\* field has its default.
C28_Witness ==
  /\ pc = "options"
  /\ opts = << WithEastAsianAmbiguous(EANarrow), WithEastAsianAmbiguous(EAWide) >>
  /\ k = 3
  /\ options = [EastAsianAmbiguous |-> EAWide, EmojiPresentation |-> TRUE]

\* x is valid UTF-8: decoding it meets no invalid byte.
validString(x) == \A n \in 1..Len(decodeRunes(x)) : decodeRunes(x)[n] # RuneError

\* C29: StringWidthWithOptions is additive under concatenation of whole
\* code points: for every split of a valid string into valid strings a and
\* b, the width of the string under the call's options is the width of a
\* plus the width of b under the same options.
C29_OptionsAdditive ==
  Done("StringWidthWithOptions") =>
    \A n \in 0..Len(s) :
      LET a == SubSeq(s, 1, n)
          b == SubSeq(s, n + 1, Len(s))
      IN (validString(a) /\ validString(b)) =>
           ret = StringWidthWithOptions(a, options) + StringWidthWithOptions(b, options)

\* C30: for a string of n code points (an invalid byte decoding to one),
\* StringWidth returns a width from 0 to 2n, and so does
\* StringWidthWithOptions under every options value with EastAsianAmbiguous
\* EANarrow or EAWide; the empty string has width 0.
C30_WidthBounds ==
  (Done("StringWidth") \/ Done("StringWidthWithOptions")) =>
    /\ ret >= 0
    /\ ret <= 2 * Len(decodeRunes(s))
    /\ s = << >> => ret = 0
    /\ Done("StringWidthWithOptions") => options.EastAsianAmbiguous \in { EANarrow, EAWide }

\* Three code points measured under EAWide reach the upper bound 6, an
\* ambiguous one among them.
C30_Witness ==
  /\ Done("StringWidthWithOptions")
  /\ options.EastAsianAmbiguous = EAWide
  /\ Len(decodeRunes(s)) = 3
  /\ \E n \in 1..3 : runeWidthInternal(decodeRunes(s)[n]) = -1
  /\ ret = 6

\* StringWidth has returned 0 for the empty string.
C30_WitnessEmpty == Done("StringWidth") /\ s = << >> /\ ret = 0

====
